---- MODULE Spec2Model ----
(***************************************************************************)
(* Task-flow scheduler of tv-pipelines-timken.                             *)
(*                                                                         *)
(* Two revisions of pipelines/flow.go are modelled:                        *)
(*   - the wave executor (src/pipelines/flow.go): a dependency graph whose *)
(*     ready tasks run concurrently, one goroutine per task, wave by wave; *)
(*   - the linear executor (src/unnamed/part_000:210-398): tasks run in    *)
(*     registration order, each wrapped by runWithRetry.                   *)
(* They are separate specifications over separate variables.               *)
(***************************************************************************)
EXTENDS Integers, Sequences, FiniteSets, TLC

\* ------------------------------------------------------------------ bounds
\* task names a caller may pass to AddTask or name as a dependency
Names == {"a", "b", "c"}
\* AddTask calls made before Run
MaxAdds == 3
\* dependency names passed to one AddTask call
MaxDeps == 2

\* ------------------------------------------------------------- wave state
VARIABLES
    tasks,           \* Flow.tasks: name -> task record
    order,           \* Flow.order
    cancelled,       \* the context passed to Run is done
    pc,              \* position of Run: "build", "find", "wait", "returned"
    gpc,             \* position of each task's goroutine
    wg,              \* sync.WaitGroup counter of the current wave
    errChan,         \* errors sent by the goroutines of the current wave
    completedCount,  \* Run's completedCount
    ccLocal,         \* value of completedCount read by a goroutine
    result,          \* what Run returned
    wave,            \* iterations of Run's loop that launched tasks
    startedIn,       \* wave in which each task was launched (0: never)
    finishedIn,      \* wave in which each task became done (0: not yet)
    launches,        \* times each task was marked running
    calls,           \* times each task's fn was invoked
    runEvents,       \* run-level log events of Run
    taskEvents,      \* per-task log events
    startCancelled,  \* the context was already done when Run was called
    lastCall         \* record: the arguments of the latest AddTask call

waveVars == <<lastCall, tasks, order, cancelled, pc, gpc, wg, errChan,
              completedCount, ccLocal, result, wave, startedIn, finishedIn,
              launches, calls,
              runEvents, taskEvents, startCancelled>>

\* ----------------------------------------------------------- linear state
\* Retries set by the linear AddTask on every task
DefaultRetries == 2
\* step names the context's skip list may carry
MaxSkips == 1

VARIABLES
    linTasks,        \* Flow.tasks of the linear flow: name -> goflow task
    taskOrder,       \* Flow.taskOrder
    downstream,      \* edges handed to job.SetDownstream
    declared,        \* record: dependency names as the caller passed them
    linCancelled,    \* the context passed to the linear Run is done
    skipSteps,       \* skip set read from the context
    lpc,             \* position: "build", "loop", "attempt", "invoke", "returned"
    idx,             \* index into taskOrder of the step being run
    attempt,         \* runWithRetry's attempt
    lastErr,         \* runWithRetry's lastErr
    linResult,       \* what the linear Run returned
    linCompleted,    \* Run's completedCount
    skippedCount,    \* Run's skippedCount
    outcomes,        \* per step: outcome of each Operator.Run call, in order
    warns,           \* per step: "task attempt failed" warnings logged
    stepEvents       \* per step: step-level log events

linVars == <<linTasks, taskOrder, downstream, declared, linCancelled,
             skipSteps, lpc,
             idx, attempt, lastErr, linResult, linCompleted, skippedCount,
             outcomes, warns, stepEvents>>

\* ------------------------------------------------------- repeated Run
\* Run calls made on one flow
MaxRuns == 2

VARIABLES
    runs,            \* Run calls made on the flow so far
    firstWaves,      \* waves launched before the latest Run call
    firstResult      \* what the Run before the latest one returned

rerunVars == <<runs, firstWaves, firstResult>>

\* ------------------------------------------------- COC pipeline and handler
VARIABLES
    certificationID, \* coc.Run's closure variable certificationID
    fileID,          \* coc.Run's closure variable fileID
    emailSent,       \* coc.Run's closure variable emailSent
    response         \* what handlePipeline wrote to the client

cocVars == <<certificationID, fileID, emailSent, response>>

\* the nil error
NoErr == [task |-> "", cause |-> 0]

\* result values of Run
NotReturned == [kind |-> "none", err |-> NoErr]
Success     == [kind |-> "success", err |-> NoErr]
Deadlock    == [kind |-> "deadlock", err |-> NoErr]
Cancelled   == [kind |-> "cancelled", err |-> NoErr]
TaskError(e) == [kind |-> "task", err |-> e]

\* positions of taskOrder
Steps == 1..MaxAdds

\* errors of the linear flow: the error of the k-th Operator.Run of a step,
\* and the errors runWithRetry and Run wrap around it or around ctx.Err()
NoLinErr == [kind |-> "nil", task |-> "", step |-> 0, attempts |-> 0]
OpErr(name, i, k) ==
    [kind |-> "op", task |-> name, step |-> i, attempts |-> k]
LinNotReturned == [kind |-> "none", task |-> "", attempts |-> 0,
                   wraps |-> NoLinErr]
LinSuccess == [kind |-> "success", task |-> "", attempts |-> 0,
               wraps |-> NoLinErr]
CancelledBefore(name) == [kind |-> "cancelled before", task |-> name,
                          attempts |-> 0, wraps |-> NoLinErr]
TaskCancelled(name) == [kind |-> "cancelled", task |-> name,
                        attempts |-> 0, wraps |-> NoLinErr]
FailedAfter(name, n, e) == [kind |-> "failed after", task |-> name,
                            attempts |-> n, wraps |-> e]

\* handlePipeline has written nothing yet
NoResponse == [status |-> 0, success |-> FALSE, certification_id |-> "",
               file_id |-> "", email_sent |-> FALSE, error |-> "none"]

\* skip lists the context may carry
SkipLists == {S \in SUBSET Names : Cardinality(S) <= MaxSkips}

\* dependency lists an AddTask call may carry
DepLists == {D \in SUBSET Names : Cardinality(D) <= MaxDeps}

Registered == DOMAIN tasks

\* no AddTask call yet
NoCall == [name |-> "", fn |-> 0, deps |-> {}]

\* NewFlow
Init ==
    /\ tasks = [n \in {} |-> 0]
    /\ order = <<>>
    /\ lastCall = NoCall
    /\ cancelled = FALSE
    /\ pc = "build"
    /\ gpc = [n \in Names |-> "idle"]
    /\ wg = 0
    /\ errChan = <<>>
    /\ completedCount = 0
    /\ ccLocal = [n \in Names |-> 0]
    /\ result = NotReturned
    /\ wave = 0
    /\ startedIn = [n \in Names |-> 0]
    /\ finishedIn = [n \in Names |-> 0]
    /\ launches = [n \in Names |-> 0]
    /\ calls = [n \in Names |-> 0]
    /\ runEvents = <<>>
    /\ taskEvents = [n \in Names |-> <<>>]
    /\ startCancelled = FALSE
    /\ linTasks = [n \in {} |-> 0]
    /\ taskOrder = <<>>
    /\ downstream = {}
    /\ declared = {}
    /\ linCancelled = FALSE
    /\ skipSteps = {}
    /\ lpc = "build"
    /\ idx = 1
    /\ attempt = 0
    /\ lastErr = NoLinErr
    /\ linResult = LinNotReturned
    /\ linCompleted = 0
    /\ skippedCount = 0
    /\ outcomes = [i \in Steps |-> <<>>]
    /\ warns = [i \in Steps |-> 0]
    /\ stepEvents = [i \in Steps |-> <<>>]
    /\ runs = 0
    /\ firstWaves = 0
    /\ firstResult = NotReturned
    /\ certificationID = ""
    /\ fileID = ""
    /\ emailSent = FALSE
    /\ response = NoResponse

\* an AddTask that leaves a name alone once it is registered
putTask_keepsFirst(T, name, k, deps) ==
    IF name \in DOMAIN T
    THEN T
    ELSE [n \in DOMAIN T \cup {name} |->
             IF n = name
             THEN [name |-> name, fn |-> k, deps |-> deps,
                   done |-> FALSE, running |-> FALSE, err |-> NoErr]
             ELSE T[n]]

\* AddTask's f.tasks[name] = &task{name, fn, deps}: a fresh record under
\* the name, in place of any record the name had
putTask(T, name, k, deps) ==
    [n \in DOMAIN T \cup {name} |->
        IF n = name
        THEN [name |-> name, fn |-> k, deps |-> deps,
              done |-> FALSE, running |-> FALSE, err |-> NoErr]
        ELSE T[n]]

\* Flow.AddTask: the k-th call registers fn number k
AddTask(name, deps) ==
    /\ pc = "build"
    /\ Len(order) < MaxAdds
    /\ tasks' = putTask(tasks, name, Len(order) + 1, deps)
    /\ order' = Append(order, name)
    /\ lastCall' = [name |-> name, fn |-> Len(order) + 1, deps |-> deps]
    /\ UNCHANGED <<cancelled, pc, gpc, wg, errChan, completedCount, ccLocal,
                   result, wave, startedIn, finishedIn, launches, calls,
                   runEvents, taskEvents, startCancelled>>
    /\ UNCHANGED <<linVars, rerunVars, cocVars>>

\* cancel() of the context handed to Run
Cancel ==
    /\ ~cancelled
    /\ pc # "returned"
    /\ cancelled' = TRUE
    /\ UNCHANGED <<lastCall, tasks, order, pc, gpc, wg, errChan,
                   completedCount, ccLocal,
                   result, wave, startedIn, finishedIn, launches, calls,
                   runEvents, taskEvents, startCancelled>>
    /\ UNCHANGED <<linVars, rerunVars, cocVars>>

\* findReadyTasks that only asks for a dependency to be registered
findReadyTasks_ignoresDone ==
    {t \in Registered :
        /\ ~(tasks[t].done \/ tasks[t].running \/ tasks[t].err # NoErr)
        /\ \A dep \in tasks[t].deps : dep \in Registered}

\* findReadyTasks whose allDepsDone starts false and is set by a done
\* dependency
findReadyTasks_noRoots ==
    {t \in Registered :
        /\ ~(tasks[t].done \/ tasks[t].running \/ tasks[t].err # NoErr)
        /\ tasks[t].deps # {}
        /\ \A dep \in tasks[t].deps : dep \in Registered /\ tasks[dep].done}

\* findReadyTasks that takes an unregistered dependency name as satisfied
findReadyTasks_unregisteredOk ==
    {t \in Registered :
        /\ ~(tasks[t].done \/ tasks[t].running \/ tasks[t].err # NoErr)
        /\ \A dep \in tasks[t].deps : dep \in Registered => tasks[dep].done}

\* findReadyTasks that stops at the first ready task
findReadyTasks_oneAtATime ==
    LET all == {t \in Registered :
                  /\ ~(tasks[t].done \/ tasks[t].running
                                     \/ tasks[t].err # NoErr)
                  /\ \A dep \in tasks[t].deps :
                        dep \in Registered /\ tasks[dep].done}
    IN  IF all = {} THEN {} ELSE {CHOOSE t \in all : TRUE}

\* findReadyTasks that does not skip the tasks already done
findReadyTasks_keepsDone ==
    {t \in Registered :
        /\ ~(tasks[t].running \/ tasks[t].err # NoErr)
        /\ \A dep \in tasks[t].deps : dep \in Registered /\ tasks[dep].done}

\* findReadyTasks that takes a dependency that has finished, done or
\* failed, as satisfied
findReadyTasks_finishedDepOk ==
    {t \in Registered :
        /\ ~(tasks[t].done \/ tasks[t].running \/ tasks[t].err # NoErr)
        /\ \A dep \in tasks[t].deps :
              dep \in Registered
                 /\ (tasks[dep].done \/ tasks[dep].err # NoErr)}

\* findReadyTasks that returns only the pending tasks without dependencies
findReadyTasks_rootsOnly ==
    {t \in Registered :
        /\ ~(tasks[t].done \/ tasks[t].running \/ tasks[t].err # NoErr)
        /\ tasks[t].deps = {}}

\* Flow.findReadyTasks
findReadyTasks ==
    {t \in Registered :
        /\ ~(tasks[t].done \/ tasks[t].running \/ tasks[t].err # NoErr)
        /\ \A dep \in tasks[t].deps : dep \in Registered /\ tasks[dep].done}

\* allDone that looks at running instead of done
allDone_notRunning == \A t \in Registered : ~tasks[t].running

\* allDone that is content with one done task
allDone_any == \E t \in Registered : tasks[t].done

\* Flow.allDone
allDone == \A t \in Registered : tasks[t].done

\* Run, up to the loop: the "pipeline started" event
RunStart ==
    /\ pc = "build"
    /\ pc' = "find"
    /\ runEvents' = Append(runEvents,
                       [event |-> "pipeline started",
                        task_count |-> Cardinality(Registered),
                        tasks |-> order])
    /\ UNCHANGED <<lastCall, tasks, order, cancelled, gpc, wg, errChan,
                   completedCount,
                   ccLocal, result, wave, startedIn, finishedIn, launches,
                   calls, taskEvents>>
    /\ startCancelled' = cancelled
    /\ runs' = runs + 1
    /\ UNCHANGED <<firstWaves, firstResult>>
    /\ UNCHANGED <<linVars, cocVars>>

\* Run, the top of one loop iteration: either return or launch the wave
FindReady ==
    /\ pc = "find"
    /\ LET ready == findReadyTasks IN
       IF ready = {}
       THEN /\ pc' = "returned"
            /\ IF allDone
               THEN /\ result' = Success
                    /\ runEvents' = Append(runEvents,
                          [event |-> "pipeline completed",
                           tasks_completed |-> completedCount])
               ELSE /\ runEvents' = runEvents
                    /\ IF \E t \in Registered : tasks[t].err # NoErr
                       THEN \E t \in Registered :
                               /\ tasks[t].err # NoErr
                               /\ result' = TaskError(tasks[t].err)
                       ELSE result' = Deadlock
            /\ UNCHANGED <<tasks, gpc, wg, errChan, wave, startedIn, launches>>
       ELSE /\ pc' = "wait"
            /\ tasks' = [t \in Registered |->
                            IF t \in ready
                            THEN [tasks[t] EXCEPT !.running = TRUE]
                            ELSE tasks[t]]
            /\ wg' = Cardinality(ready)
            /\ errChan' = <<>>
            /\ gpc' = [n \in DOMAIN gpc |-> IF n \in ready THEN "call" ELSE gpc[n]]
            /\ wave' = wave + 1
            /\ startedIn' = [n \in DOMAIN startedIn |->
                                IF n \in ready THEN wave + 1 ELSE startedIn[n]]
            /\ launches' = [n \in DOMAIN launches |->
                               IF n \in ready THEN launches[n] + 1
                               ELSE launches[n]]
            /\ UNCHANGED <<result, runEvents>>
    /\ UNCHANGED <<lastCall, order, cancelled, completedCount, ccLocal,
                   finishedIn,
                   calls, taskEvents, startCancelled>>
    /\ UNCHANGED <<linVars, rerunVars, cocVars>>

\* tasks launched in the current wave: len(ready)
waveSize == Cardinality({u \in Registered : startedIn[u] = wave})

\* an unbuffered errChan: nothing receives before wg.Wait() has returned
canSend_unbuffered == FALSE

\* errChan <- t.err can proceed: errChan is made with room for len(ready)
\* errors and nothing receives from it before wg.Wait() has returned
canSend == Len(errChan) < waveSize

\* a failure branch that also marks the task done
failedTask_alsoDone(r, e) == [r EXCEPT !.err = e, !.done = TRUE,
                                       !.running = FALSE]

\* the task record after the goroutine's failure branch: t.err is set,
\* t.done is left alone, t.running is cleared
failedTask(r, e) == [r EXCEPT !.err = e, !.running = FALSE]

\* a goroutine that logs "step completed" after the if, on both branches
failedLog_thenCompleted(ev) ==
    ev \o <<"step started", "step failed", "step completed">>

\* what the goroutine of a failing task logs: "step started" ahead of
\* t.fn(), "step failed" in the error branch
failedLog(ev) == ev \o <<"step started", "step failed">>

\* goroutine of task t: "step started", then t.fn(); on error the whole
\* failure branch, on success t.done = true and the read of completedCount
goroutineCall(t, ok) ==
    /\ pc = "wait"
    /\ gpc[t] = "call"
    /\ calls' = [calls EXCEPT ![t] = @ + 1]
    /\ IF ok
       THEN /\ tasks' = [tasks EXCEPT ![t].done = TRUE]
            /\ finishedIn' = [finishedIn EXCEPT ![t] = wave]
            /\ ccLocal' = [ccLocal EXCEPT ![t] = completedCount]
            /\ gpc' = [gpc EXCEPT ![t] = "inc"]
            /\ taskEvents' = [taskEvents EXCEPT
                                 ![t] = Append(@, "step started")]
            /\ UNCHANGED <<errChan, wg>>
       ELSE LET e == [task |-> t, cause |-> tasks[t].fn] IN
            /\ canSend
            /\ tasks' = [tasks EXCEPT ![t] = failedTask(@, e)]
            /\ errChan' = Append(errChan, e)
            /\ taskEvents' = [taskEvents EXCEPT ![t] = failedLog(@)]
            /\ gpc' = [gpc EXCEPT ![t] = "idle"]
            /\ wg' = wg - 1
            /\ UNCHANGED <<finishedIn, ccLocal>>
    /\ UNCHANGED <<lastCall, order, cancelled, pc, completedCount, result, wave,
                 startedIn, launches, runEvents, startCancelled>>
    /\ UNCHANGED <<linVars, rerunVars>>

\* the goroutine of a task whose fn touches nothing but its own result
TaskCall(t) ==
    /\ \E ok \in BOOLEAN : goroutineCall(t, ok)
    /\ UNCHANGED cocVars

\* goroutine of task t: the write of completedCount++, "step completed",
\* t.running = false and wg.Done()
TaskComplete(t) ==
    /\ pc = "wait"
    /\ gpc[t] = "inc"
    /\ completedCount' = ccLocal[t] + 1
    /\ taskEvents' = [taskEvents EXCEPT ![t] = Append(@, "step completed")]
    /\ tasks' = [tasks EXCEPT ![t].running = FALSE]
    /\ gpc' = [gpc EXCEPT ![t] = "idle"]
    /\ wg' = wg - 1
    /\ UNCHANGED <<lastCall, order, cancelled, pc, errChan, ccLocal, result,
                   wave,
                   startedIn, finishedIn, launches, calls, runEvents,
                   startCancelled>>
    /\ UNCHANGED <<linVars, rerunVars, cocVars>>

\* Run that does not look at errChan after the wave
waveFailed_ignored(ch) == FALSE

\* Run's loop over the closed errChan: some task of the wave sent an error
waveFailed(ch) == ch # <<>>

\* a wait that returns as soon as one goroutine is left
waveJoined_first == wg <= 1

\* no wait at all
waveJoined_noWait == TRUE

\* wg.Wait() returns
waveJoined == wg = 0

\* a select that always takes its default branch
ctxDone_never(c) == FALSE

\* a context check that lets a flow through once all its tasks are done
ctxDone_unlessAllDone(c) == c /\ ~allDone

\* Run's select on ctx.Done() after a wave
ctxDone(c) == c

\* Run after wg.Wait(): the first error of errChan, else the context check
AfterWave ==
    /\ pc = "wait"
    /\ waveJoined
    /\ IF waveFailed(errChan)
       THEN /\ pc' = "returned"
            /\ result' = TaskError(Head(errChan))
            /\ runEvents' = Append(runEvents,
                  [event |-> "pipeline failed",
                   tasks_completed |-> completedCount])
       ELSE IF ctxDone(cancelled)
       THEN /\ pc' = "returned"
            /\ result' = Cancelled
            /\ UNCHANGED runEvents
       ELSE /\ pc' = "find"
            /\ UNCHANGED <<result, runEvents>>
    /\ UNCHANGED <<lastCall, tasks, order, cancelled, gpc, wg, errChan,
                   completedCount,
                   ccLocal, wave, startedIn, finishedIn, launches, calls,
                   taskEvents, startCancelled>>
    /\ UNCHANGED <<linVars, rerunVars, cocVars>>

\* Run called again on a flow whose Run has returned, with the same context
\* or a fresh one: completedCount is a local of Run, the task records are not
RunAgain ==
    /\ pc = "returned"
    /\ runs < MaxRuns
    /\ pc' = "find"
    /\ runEvents' = Append(runEvents,
                       [event |-> "pipeline started",
                        task_count |-> Cardinality(Registered),
                        tasks |-> order])
    /\ \E fresh \in BOOLEAN :
          /\ cancelled' = IF fresh THEN FALSE ELSE cancelled
          /\ startCancelled' = cancelled'
    /\ completedCount' = 0
    /\ result' = NotReturned
    /\ runs' = runs + 1
    /\ firstWaves' = wave
    /\ firstResult' = result
    /\ UNCHANGED <<lastCall, tasks, order, gpc, wg, errChan, ccLocal, wave,
                   startedIn,
                   finishedIn, launches, calls, taskEvents>>
    /\ UNCHANGED <<linVars, cocVars>>

WaveNext ==
    \/ \E n \in Names, D \in DepLists : AddTask(n, D)
    \/ Cancel
    \/ RunStart
    \/ FindReady
    \/ \E t \in Names : TaskCall(t)
    \/ \E t \in Names : TaskComplete(t)
    \/ AfterWave

\* ------------------------------------------------------- linear executor
\* Flow.AddTask of the linear flow: a dependency name is handed to
\* SetDownstream when a task of that name is already registered, and is
\* kept nowhere otherwise
linAddTask(name, deps) ==
    /\ lpc = "build"
    /\ Len(taskOrder) < MaxAdds
    /\ linTasks' = [n \in DOMAIN linTasks \cup {name} |->
                       IF n = name
                       THEN [Name |-> name, fn |-> Len(taskOrder) + 1,
                             Retries |-> DefaultRetries]
                       ELSE linTasks[n]]
    /\ taskOrder' = Append(taskOrder, name)
    /\ downstream' = downstream \cup
                       {<<dep, name>> : dep \in deps \cap DOMAIN linTasks'}
    /\ UNCHANGED <<linCancelled, skipSteps, lpc, idx, attempt, lastErr,
                   linResult, linCompleted, skippedCount, outcomes, warns,
                   stepEvents>>
    /\ UNCHANGED <<waveVars, rerunVars, cocVars>>

LinAddTask(name, deps) ==
    /\ linAddTask(name, deps)
    /\ UNCHANGED declared

\* the same call, with the names the caller passed kept on record
LinAddTaskDeps(name, deps) ==
    /\ linAddTask(name, deps)
    /\ declared' = declared \cup {<<dep, name>> : dep \in deps}

\* cancel() of the context handed to the linear Run
LinCancel ==
    /\ ~linCancelled
    /\ lpc # "returned"
    /\ linCancelled' = TRUE
    /\ UNCHANGED <<linTasks, taskOrder, downstream, declared, skipSteps, lpc,
                   idx,
                   attempt, lastErr, linResult, linCompleted, skippedCount,
                   outcomes, warns, stepEvents>>
    /\ UNCHANGED <<waveVars, rerunVars, cocVars>>

\* getSkipStepsFromContext
getSkipStepsFromContext(steps) == steps

\* Run of the linear flow, up to the loop
LinRunStart(steps) ==
    /\ lpc = "build"
    /\ lpc' = "loop"
    /\ skipSteps' = getSkipStepsFromContext(steps)
    /\ idx' = 1
    /\ UNCHANGED <<linTasks, taskOrder, downstream, declared, linCancelled,
                   attempt,
                   lastErr, linResult, linCompleted, skippedCount, outcomes,
                   warns, stepEvents>>
    /\ UNCHANGED <<waveVars, rerunVars, cocVars>>

\* Run's skipSteps[name]
shouldSkip(skips, name) == name \in skips

\* Run of the linear flow, the top of one iteration over taskOrder: the end
\* of the loop, the context check, the skip check, or the entry into
\* runTaskWithLogging and runWithRetry
LinLoop ==
    /\ lpc = "loop"
    /\ IF idx > Len(taskOrder)
       THEN /\ lpc' = "returned"
            /\ linResult' = LinSuccess
            /\ UNCHANGED <<idx, attempt, lastErr, skippedCount, stepEvents>>
       ELSE LET name == taskOrder[idx] IN
            IF linCancelled
            THEN /\ lpc' = "returned"
                 /\ linResult' = CancelledBefore(name)
                 /\ UNCHANGED <<idx, attempt, lastErr, skippedCount,
                                stepEvents>>
            ELSE IF shouldSkip(skipSteps, name)
            THEN /\ stepEvents' = [stepEvents EXCEPT
                                      ![idx] = Append(@, "step skipped")]
                 /\ skippedCount' = skippedCount + 1
                 /\ idx' = idx + 1
                 /\ UNCHANGED <<lpc, attempt, lastErr, linResult>>
            ELSE /\ stepEvents' = [stepEvents EXCEPT
                                      ![idx] = Append(@, "step started")]
                 /\ attempt' = 1
                 /\ lastErr' = NoLinErr
                 /\ lpc' = "attempt"
                 /\ UNCHANGED <<idx, linResult, skippedCount>>
    /\ UNCHANGED <<linTasks, taskOrder, downstream, declared, linCancelled,
                   skipSteps,
                   linCompleted, outcomes, warns>>
    /\ UNCHANGED <<waveVars, rerunVars, cocVars>>

\* maxAttempts without the first attempt
maxAttempts_retriesOnly(t) == IF t.Retries > 1 THEN t.Retries ELSE 1

\* runWithRetry's maxAttempts
maxAttempts(t) == IF t.Retries + 1 > 1 THEN t.Retries + 1 ELSE 1

\* the error runWithRetry returns after its loop
exhausted(t, n, e) == FailedAfter(t.Name, n, e)

\* a ctx.Err() check made ahead of the retries only
attemptCancelled_retriesOnly(done, a) == done /\ a > 1

\* runWithRetry's ctx.Err() check at the top of attempt number a
attemptCancelled(done, a) == done

\* runWithRetry, the top of one iteration: the loop condition, the context
\* check, and the retry delay ahead of every attempt but the first
LinAttempt ==
    /\ lpc = "attempt"
    /\ LET t == linTasks[taskOrder[idx]] IN
       IF attempt > maxAttempts(t)
       THEN /\ lpc' = "returned"
            /\ linResult' = exhausted(t, maxAttempts(t), lastErr)
            /\ stepEvents' = [stepEvents EXCEPT
                                 ![idx] = Append(@, "step failed")]
       ELSE IF attemptCancelled(linCancelled, attempt)
       THEN /\ lpc' = "returned"
            /\ linResult' = TaskCancelled(t.Name)
            /\ stepEvents' = [stepEvents EXCEPT
                                 ![idx] = Append(@, "step failed")]
       ELSE /\ lpc' = "invoke"
            /\ stepEvents' = [stepEvents EXCEPT
                                 ![idx] = IF attempt > 1
                                          THEN Append(@, "retrying task")
                                          ELSE @]
            /\ UNCHANGED linResult
    /\ UNCHANGED <<linTasks, taskOrder, downstream, declared, linCancelled,
                   skipSteps,
                   idx, attempt, lastErr, linCompleted, skippedCount,
                   outcomes, warns>>
    /\ UNCHANGED <<waveVars, rerunVars, cocVars>>

\* runWithRetry that logs no warning for a failed attempt
warnAttemptFailed_silent(w) == w

\* runWithRetry's "task attempt failed" warning, logged in the error branch
warnAttemptFailed(w) == w + 1

\* runWithRetry, the rest of the iteration once the delay has elapsed:
\* Operator.Run, then either the return to Run (which logs the step
\* completed and counts it) or the warning and continue
LinInvoke ==
    /\ lpc = "invoke"
    /\ \E ok \in BOOLEAN :
         /\ outcomes' = [outcomes EXCEPT ![idx] = Append(@, ok)]
         /\ IF ok
            THEN /\ stepEvents' = [stepEvents EXCEPT
                                      ![idx] = Append(@, "step completed")]
                 /\ linCompleted' = linCompleted + 1
                 /\ idx' = idx + 1
                 /\ lpc' = "loop"
                 /\ UNCHANGED <<attempt, lastErr, warns>>
            ELSE /\ lastErr' = OpErr(taskOrder[idx], idx, attempt)
                 /\ warns' = [warns EXCEPT ![idx] = warnAttemptFailed(@)]
                 /\ attempt' = attempt + 1
                 /\ lpc' = "attempt"
                 /\ UNCHANGED <<idx, linCompleted, stepEvents>>
    /\ UNCHANGED <<linTasks, taskOrder, downstream, declared, linCancelled,
                   skipSteps,
                   linResult, skippedCount>>
    /\ UNCHANGED <<waveVars, rerunVars, cocVars>>

LinNext ==
    \/ \E n \in Names, D \in DepLists : LinAddTask(n, D)
    \/ LinCancel
    \/ \E S \in SkipLists : LinRunStart(S)
    \/ LinLoop
    \/ LinAttempt
    \/ LinInvoke

\* the linear flow run with a context that is never cancelled and carries
\* no skip steps
LinDepNext ==
    \/ \E n \in Names, D \in DepLists : LinAddTaskDeps(n, D)
    \/ LinRunStart({})
    \/ LinLoop
    \/ LinAttempt
    \/ LinInvoke

vars == <<waveVars, linVars, rerunVars, cocVars>>

Next == WaveNext

Spec == Init /\ [][Next]_vars

LinSpec == Init /\ [][LinNext]_vars

LinDepSpec == Init /\ [][LinDepNext]_vars

RerunNext == WaveNext \/ RunAgain

\* a flow whose caller may call Run again after it returned
RerunSpec == Init /\ [][RerunNext]_vars

\* ----------------------------------------- COC pipeline behind its handler
CocOrder == <<"generate_pdf", "fetch_coc_data", "prepare_record",
              "create_certification", "upload_pdf", "send_email">>

CocNames == {CocOrder[i] : i \in 1..Len(CocOrder)}

\* a coc.Run that registers prepare_record without its dependency
CocDeps_prepareFree(n) ==
    CASE n = "create_certification" -> {"prepare_record"}
      [] n = "upload_pdf" -> {"create_certification", "generate_pdf"}
      [] n = "send_email" -> {"upload_pdf"}
      [] OTHER -> {}

\* dependencies coc.Run passes to its six AddTask calls
CocDeps(n) ==
    CASE n = "prepare_record" -> {"fetch_coc_data"}
      [] n = "create_certification" -> {"prepare_record"}
      [] n = "upload_pdf" -> {"create_certification", "generate_pdf"}
      [] n = "send_email" -> {"upload_pdf"}
      [] OTHER -> {}

\* the flow after coc.Run's six AddTask calls
CocFlow ==
    [n \in CocNames |->
        [name |-> n,
         fn |-> CHOOSE i \in 1..Len(CocOrder) : CocOrder[i] = n,
         deps |-> CocDeps(n),
         done |-> FALSE, running |-> FALSE, err |-> NoErr]]

\* a request has reached the server and nothing has been done with it yet
CocInit ==
    /\ tasks = [n \in {} |-> 0]
    /\ order = <<>>
    /\ lastCall = NoCall
    /\ cancelled = FALSE
    /\ pc = "build"
    /\ gpc = [n \in CocNames |-> "idle"]
    /\ wg = 0
    /\ errChan = <<>>
    /\ completedCount = 0
    /\ ccLocal = [n \in CocNames |-> 0]
    /\ result = NotReturned
    /\ wave = 0
    /\ startedIn = [n \in CocNames |-> 0]
    /\ finishedIn = [n \in CocNames |-> 0]
    /\ launches = [n \in CocNames |-> 0]
    /\ calls = [n \in CocNames |-> 0]
    /\ runEvents = <<>>
    /\ taskEvents = [n \in CocNames |-> <<>>]
    /\ startCancelled = FALSE
    /\ linTasks = [n \in {} |-> 0]
    /\ taskOrder = <<>>
    /\ downstream = {}
    /\ declared = {}
    /\ linCancelled = FALSE
    /\ skipSteps = {}
    /\ lpc = "build"
    /\ idx = 1
    /\ attempt = 0
    /\ lastErr = NoLinErr
    /\ linResult = LinNotReturned
    /\ linCompleted = 0
    /\ skippedCount = 0
    /\ outcomes = [i \in Steps |-> <<>>]
    /\ warns = [i \in Steps |-> 0]
    /\ stepEvents = [i \in Steps |-> <<>>]
    /\ runs = 0
    /\ firstWaves = 0
    /\ firstResult = NotReturned
    /\ certificationID = ""
    /\ fileID = ""
    /\ emailSent = FALSE
    /\ response = NoResponse

\* writeError, and http.Error for the wrong method
writeError(status, message) ==
    [status |-> status, success |-> FALSE, certification_id |-> "",
     file_id |-> "", email_sent |-> FALSE, error |-> message]

\* handlePipeline up to the call of the pipeline, then coc.Run up to
\* flow.Run: a request that is refused is answered at once, any other one
\* builds the flow
HandleRequest(method, bodyOk, sscc, found) ==
    /\ pc = "build"
    /\ order = <<>>
    /\ response = NoResponse
    /\ IF method # "POST"
       THEN /\ response' = writeError(405, "Method not allowed")
            /\ UNCHANGED <<tasks, order, lastCall>>
       ELSE IF ~bodyOk
       THEN /\ response' = writeError(400, "invalid request body")
            /\ UNCHANGED <<tasks, order, lastCall>>
       ELSE IF sscc = ""
       THEN /\ response' = writeError(400, "sscc is required")
            /\ UNCHANGED <<tasks, order, lastCall>>
       ELSE IF ~found
       THEN /\ response' = writeError(500, "pipeline not found")
            /\ UNCHANGED <<tasks, order, lastCall>>
       ELSE /\ tasks' = CocFlow
            /\ order' = CocOrder
            /\ lastCall' = [name |-> "send_email", fn |-> Len(CocOrder),
                            deps |-> CocDeps("send_email")]
            /\ UNCHANGED response
    /\ UNCHANGED <<cancelled, pc, gpc, wg, errChan, completedCount, ccLocal,
                   result, wave, startedIn, finishedIn, launches, calls,
                   runEvents, taskEvents, startCancelled>>
    /\ UNCHANGED <<certificationID, fileID, emailSent>>
    /\ UNCHANGED <<linVars, rerunVars>>

\* coc.Run's flow.Run(ctx)
CocRunStart ==
    /\ order # <<>>
    /\ RunStart

\* the goroutine of a COC task: what its closure leaves in coc.Run's
\* variables. upload_pdf sets fileID before it patches the certification,
\* so a failed upload_pdf may have set it; send_email stores what
\* tasks.SendEmail reports.
CocTaskCall(t) ==
    \E ok \in BOOLEAN :
        /\ goroutineCall(t, ok)
        /\ certificationID' = IF t = "create_certification" /\ ok
                              THEN "cert-id" ELSE certificationID
        /\ \E uploaded \in BOOLEAN :
              fileID' = IF t = "upload_pdf" /\ (ok \/ uploaded)
                        THEN "file-id" ELSE fileID
        /\ \E sent \in BOOLEAN :
              emailSent' = IF t = "send_email" /\ ok THEN sent ELSE emailSent
        /\ UNCHANGED response

\* a result of coc.Run that carries whatever the closures hold
CocResult_partial(res) ==
    [Success |-> res.kind = "success", CertificationID |-> certificationID,
     FileID |-> fileID, EmailSent |-> emailSent,
     Error |-> IF res.kind = "success" THEN "" ELSE res.kind]

\* coc.Run after flow.Run: the PipelineResult; the error text is the kind of
\* error Run returned
CocResult(res) ==
    IF res.kind # "success"
    THEN [Success |-> FALSE, CertificationID |-> "", FileID |-> "",
          EmailSent |-> FALSE, Error |-> res.kind]
    ELSE [Success |-> TRUE, CertificationID |-> certificationID,
          FileID |-> fileID, EmailSent |-> emailSent, Error |-> ""]

\* handlePipeline's answer to a pipeline that returned no error
PipelineResponse(r) ==
    [status |-> IF r.Success THEN 200 ELSE 500, success |-> r.Success,
     certification_id |-> r.CertificationID, file_id |-> r.FileID,
     email_sent |-> r.EmailSent, error |-> r.Error]

\* coc.Run after flow.Run and handlePipeline after coc.Run
HandleResult ==
    /\ pc = "returned"
    /\ response = NoResponse
    /\ response' = PipelineResponse(CocResult(result))
    /\ UNCHANGED <<certificationID, fileID, emailSent>>
    /\ UNCHANGED <<waveVars, linVars, rerunVars>>

CocNext ==
    \/ \E method \in {"POST", "GET"}, bodyOk \in BOOLEAN, sscc \in {"", "s1"},
          found \in BOOLEAN :
          HandleRequest(method, bodyOk, sscc, found)
    \/ Cancel
    \/ CocRunStart
    \/ FindReady
    \/ \E t \in CocNames : CocTaskCall(t)
    \/ \E t \in CocNames : TaskComplete(t)
    \/ AfterWave
    \/ HandleResult

\* one request to POST /run/coc
CocSpec == CocInit /\ [][CocNext]_vars

\* the goroutine steps of a launched task always get to run, and Run itself
\* proceeds whenever it can; the caller's AddTask, Run and cancel need not
FairSpec ==
    /\ Spec
    /\ WF_vars(FindReady)
    /\ WF_vars(AfterWave)
    /\ \A t \in Names : WF_vars(TaskCall(t)) /\ WF_vars(TaskComplete(t))

\* ------------------------------------------------- dependency declarations
DepsOf(n) == IF n \in Registered THEN tasks[n].deps ELSE {}

RECURSIVE ReachN(_, _)
ReachN(S, k) ==
    IF k = 0 THEN S ELSE ReachN(S \cup UNION {DepsOf(n) : n \in S}, k - 1)

\* every name t depends on, directly or through other tasks
TransDeps(t) == ReachN(DepsOf(t), Cardinality(Names))

Resolvable == \A t \in Registered : tasks[t].deps \subseteq Registered
Acyclic == \A t \in Registered : t \notin TransDeps(t)

\* t is on or behind a cycle or an unregistered name
Starved(t) ==
    \/ t \in TransDeps(t)
    \/ \E d \in TransDeps(t) : d \notin Registered \/ d \in TransDeps(d)

Pending(t) ==
    ~tasks[t].done /\ ~tasks[t].running /\ tasks[t].err = NoErr

NoTaskFailed == \A t \in Registered : tasks[t].err = NoErr

RunCalled == pc = "find" /\ wave = 0

\* ------------------------------------------------------------------ claims

\* C1: a task is launched, and its work invoked, only when every declared
\* dependency is a registered task that is done and became done in a wave
\* strictly earlier than the one the task is launched in; a task and its
\* dependency are never launched in the same wave.
C1_DepsDoneInEarlierWave ==
    \A t \in Registered :
        /\ calls[t] > 0 => startedIn[t] > 0
        /\ startedIn[t] > 0 =>
             \A d \in tasks[t].deps :
                /\ d \in Registered
                /\ tasks[d].done
                /\ finishedIn[d] > 0
                /\ finishedIn[d] < startedIn[t]
                /\ startedIn[d] # startedIn[t]

C1_Witness ==
    \E t \in Registered :
        /\ Cardinality(tasks[t].deps) = 2
        /\ calls[t] = 1
        /\ \E d \in tasks[t].deps : finishedIn[d] = 2 /\ startedIn[t] = 3

\* C2: once Run is called on a flow whose dependency names all resolve and
\* whose dependency graph is acyclic, Run returns, and if no work failed and
\* the context was not cancelled it returns success with every task done.
C2_Completion ==
    (RunCalled /\ Resolvable /\ Acyclic)
        ~> (/\ pc = "returned"
            /\ (NoTaskFailed /\ ~cancelled) => (result = Success /\ allDone))

C2_Witness ==
    /\ pc = "returned"
    /\ result = Success
    /\ Cardinality(Registered) = 3
    /\ wave = 3
    /\ \A t \in Registered : tasks[t].done

\* C3: once Run is called on a flow with a dependency cycle, a self
\* dependency or a dependency on an unregistered name, Run returns, and if no
\* work failed and the context was not cancelled it returns the deadlock
\* error with every starved task still pending and never invoked.
C3_DeadlockDetected ==
    (RunCalled /\ ~(Resolvable /\ Acyclic))
        ~> (/\ pc = "returned"
            /\ (NoTaskFailed /\ ~cancelled) =>
                  /\ result = Deadlock
                  /\ \A t \in Registered :
                        Starved(t) => (Pending(t) /\ calls[t] = 0
                                       /\ launches[t] = 0))

C3_Witness ==
    /\ pc = "returned"
    /\ result = Deadlock
    /\ \E t, u \in Registered :
          /\ t # u
          /\ t \in tasks[u].deps
          /\ u \in tasks[t].deps
          /\ Pending(t) /\ Pending(u)
    /\ \E v \in Registered : tasks[v].done

\* C4: a Run called with an already cancelled context on a flow with at
\* least one task returns the cancellation error and has invoked no work:
\* every task is still pending.
C4_PreCancelledRunsNothing ==
    (pc = "returned" /\ startCancelled /\ Registered # {}) =>
        /\ result = Cancelled
        /\ \A t \in Registered : Pending(t) /\ calls[t] = 0

\* C5: no task is launched in a wave later than one in which a task failed;
\* and when Run returns after a failure it returns the name-wrapped error of
\* a task that failed in the last wave, with no task of that wave still
\* running.
C5_FailureEndsRun ==
    /\ \A t, u \in Registered :
          tasks[t].err # NoErr => startedIn[u] <= startedIn[t]
    /\ (pc = "returned" /\ ~NoTaskFailed) =>
          /\ result.kind = "task"
          /\ \E t \in Registered :
                /\ result.err = tasks[t].err
                /\ result.err.task = t
                /\ startedIn[t] = wave
          /\ wg = 0
          /\ \A n \in Names : gpc[n] = "idle"
          /\ \A t \in Registered : ~tasks[t].running

C5_Witness ==
    /\ pc = "returned"
    /\ result.kind = "task"
    /\ wave = 1
    /\ \E t, u, v \in Registered :
          /\ tasks[t].err # NoErr /\ startedIn[t] = 1
          /\ tasks[u].done /\ startedIn[u] = 1
          /\ Pending(v) /\ tasks[v].deps = {u}

\* C6: a task that is still pending once a wave has been launched was not
\* ready when that wave started: some dependency of it was unregistered or
\* not yet done at that point.
C6_MaximalWave ==
    \A t \in Registered :
        (wave > 0 /\ Pending(t)) =>
            \E d \in tasks[t].deps :
                \/ d \notin Registered
                \/ ~(finishedIn[d] > 0 /\ finishedIn[d] < wave)

C6_Witness ==
    /\ pc = "wait"
    /\ wave = 2
    /\ \E t, u \in Registered :
          /\ t # u
          /\ startedIn[t] = 2 /\ startedIn[u] = 2
          /\ tasks[t].running /\ tasks[u].running

\* C9: every task is launched, and its work invoked, at most once; when Run
\* returns success every task was launched exactly once; and every task
\* without dependencies is launched in the first wave.
C9_LaunchedOnce ==
    /\ \A t \in Registered : launches[t] <= 1 /\ calls[t] <= 1
    /\ result = Success => \A t \in Registered : launches[t] = 1
    /\ wave >= 1 =>
          \A t \in Registered : tasks[t].deps = {} => startedIn[t] = 1

\* two independent tasks running at once, the later registered one ahead
C9_Witness ==
    \E t, u \in Registered :
        /\ order = <<t, u>>
        /\ tasks[t].deps = {} /\ tasks[u].deps = {}
        /\ tasks[t].running /\ tasks[u].running
        /\ gpc[t] = "call" /\ gpc[u] = "inc"

\* run-level terminal events emitted so far
TerminalEvents ==
    {i \in 1..Len(runEvents) :
        runEvents[i].event \in {"pipeline completed", "pipeline failed"}}

\* C10: when Run has returned, whatever the outcome, exactly one run-level
\* terminal event (pipeline completed or pipeline failed) has been emitted.
C10_OneTerminalEvent ==
    pc = "returned" => Cardinality(TerminalEvents) = 1

\* ------------------------------------------------- claims, linear executor
AllFailed(i) == \A k \in 1..Len(outcomes[i]) : ~outcomes[i][k]

C11_SuccessMeansAllDone ==
    result = Success =>
        \A t \in Registered :
            tasks[t].done /\ ~tasks[t].running /\ tasks[t].err = NoErr

C11_Witness ==
    /\ pc = "returned"
    /\ result = Success
    /\ Cardinality(Registered) = 2
    /\ \E t, u \in Registered : t # u /\ tasks[u].deps = {t}
    /\ \A t \in Registered : tasks[t].done

\* C12: whenever handlePipeline answers a COC run whose flow.Run returned a
\* task failure, the deadlock error or the cancellation error, the status is
\* not a success status, success is false, the error text is that of the
\* returned error, and certification id, file id and email_sent are empty
\* whatever the closures of the completed tasks hold.
C12_FailureResponse ==
    (response # NoResponse /\ pc = "returned" /\ result.kind # "success") =>
        /\ response.status >= 400
        /\ ~response.success
        /\ response.error = result.kind
        /\ response.error # ""
        /\ response.certification_id = ""
        /\ response.file_id = ""
        /\ ~response.email_sent

\* upload_pdf failed after the certification was created and the file stored
C12_Witness ==
    /\ response # NoResponse
    /\ result.kind = "task"
    /\ result.err.task = "upload_pdf"
    /\ certificationID = "cert-id"
    /\ fileID = "file-id"
    /\ response.status = 500

\* C13: waves are strictly sequential. Every task that is running, or whose
\* goroutine has not finished, was launched in the current wave; and when
\* Run is about to compute a ready set, every task launched so far has
\* finished (done or failed) and no goroutine is left.
C13_WavesSequential ==
    /\ \A t \in Registered :
          (tasks[t].running \/ gpc[t] # "idle") => startedIn[t] = wave
    /\ pc = "find" =>
          /\ wg = 0
          /\ \A t \in Registered :
                startedIn[t] > 0 =>
                    /\ gpc[t] = "idle"
                    /\ ~tasks[t].running
                    /\ tasks[t].done \/ tasks[t].err # NoErr

\* a task whose only dependencies are done waits while another member of the
\* current wave is still running
C13_Witness ==
    /\ pc = "wait"
    /\ \E t, u \in Registered :
          /\ startedIn[t] = 0
          /\ tasks[t].deps # {}
          /\ \A d \in tasks[t].deps : d \in Registered /\ tasks[d].done
          /\ tasks[u].running
          /\ startedIn[u] = wave

\* C14: in the retry wrapper, when the context is cancelled as an attempt is
\* about to begin (the first one included), the wrapper's next step returns
\* the cancellation error that names the task without invoking the work
\* function, and once the run has returned the work function is never
\* invoked again.
C14_CancelledBeforeAttempt ==
    [][ /\ (/\ lpc = "attempt"
            /\ linCancelled
            /\ attempt <= maxAttempts(linTasks[taskOrder[idx]])) =>
               /\ lpc' = "returned"
               /\ linResult' = TaskCancelled(taskOrder[idx])
               /\ outcomes' = outcomes
        /\ lpc = "returned" => (outcomes' = outcomes /\ lpc' = "returned")
      ]_vars

\* the context was cancelled between Run's own check and the first attempt
C14_Witness ==
    /\ lpc = "returned"
    /\ idx <= Len(taskOrder)
    /\ linResult = TaskCancelled(taskOrder[idx])
    /\ attempt = 1
    /\ outcomes[idx] = <<>>

\* C15: in the retry wrapper, when the context is cancelled while the
\* wrapper waits out the delay ahead of a retry, the wrapper's next step
\* returns a cancellation error and the work function is not invoked again.
C15_CancelDuringDelay ==
    [][ (lpc = "invoke" /\ attempt > 1 /\ linCancelled) =>
            /\ lpc' = "returned"
            /\ linResult'.kind = "cancelled"
            /\ outcomes' = outcomes
      ]_vars

\* C16: when a wave has finished, a task error of that wave is returned
\* whether or not the context is cancelled; with no task error and the
\* context cancelled Run returns the cancellation error; and after Run has
\* returned no task is launched and no work function is invoked.
C16_CancelAfterWave ==
    [][ /\ (pc = "wait" /\ pc' # "wait") =>
               IF errChan # <<>>
               THEN /\ pc' = "returned"
                    /\ result' = TaskError(Head(errChan))
                    /\ result' # Cancelled
               ELSE cancelled => (pc' = "returned" /\ result' = Cancelled)
        /\ pc = "returned" =>
               /\ pc' = "returned"
               /\ launches' = launches
               /\ calls' = calls
               /\ tasks' = tasks
      ]_vars

\* Run returned the cancellation error after a wave without failure, leaving
\* unlaunched a task whose dependencies are all done
C16_Witness ==
    /\ pc = "returned"
    /\ result = Cancelled
    /\ errChan = <<>>
    /\ wave >= 1
    /\ \E t \in Registered :
          /\ launches[t] = 0
          /\ Pending(t)
          /\ tasks[t].deps # {}
          /\ \A d \in tasks[t].deps : d \in Registered /\ tasks[d].done

\* the work of step i of the linear flow has been invoked
LinStarted(i) == outcomes[i] # <<>>

\* step i of the linear flow is done
LinDone(i) == \E k \in 1..Len(outcomes[i]) : outcomes[i][k]

\* C17: a dependency on a name registered by a later AddTask call is
\* honoured: in a flow of distinct names, the work of a task that was given
\* such a dependency is not invoked until the later-registered task is done.
C17_LateDependencyHonoured ==
    Len(taskOrder) = Cardinality(DOMAIN linTasks) =>
        \A i, j \in 1..Len(taskOrder) :
            (i < j /\ <<taskOrder[j], taskOrder[i]>> \in declared
                   /\ LinStarted(i)) => LinDone(j)

\* the value a Run that launches nothing returns
StaleResult(r) ==
    IF \A t \in Registered : tasks[t].done
    THEN r = Success
    ELSE IF \E t \in Registered : tasks[t].err # NoErr
    THEN \E t \in Registered :
            tasks[t].err # NoErr /\ r = TaskError(tasks[t].err)
    ELSE r = Deadlock

\* C18 as stated: a Run on a flow whose earlier Run has returned launches
\* no task, and returns success when every task is done and otherwise a
\* stored task error or the deadlock error.
C18_SecondRunLaunchesNothing ==
    runs >= 2 =>
        /\ wave = firstWaves
        /\ pc = "returned" => StaleResult(result)

\* C18 amended: a Run on a flow whose earlier Run returned success or the
\* deadlock error launches no task and returns the same again. After an
\* earlier Run that returned a task failure or the cancellation error it
\* launches nothing but tasks never launched before; whenever no task has
\* been launched by it, no work function runs, and it returns success when
\* every task is done and otherwise a stored task error or the deadlock
\* error.
C18_SecondRun ==
    runs >= 2 =>
        /\ firstResult.kind \in {"success", "deadlock"} =>
              /\ wave = firstWaves
              /\ pc = "returned" => result = firstResult
        /\ wave = firstWaves =>
              /\ \A t \in Registered : gpc[t] = "idle" /\ ~tasks[t].running
              /\ pc = "returned" => StaleResult(result)
        /\ \A t \in Registered : startedIn[t] > firstWaves => launches[t] = 1

\* a second Run, after a task failure, has launched and completed a task
\* that the first Run left pending, and returned
C18_Witness ==
    /\ runs = 2
    /\ pc = "returned"
    /\ firstResult.kind = "task"
    /\ wave = firstWaves + 1
    /\ \E t \in Registered : startedIn[t] = wave /\ tasks[t].done

\* C19: the tasks_completed figure of the "pipeline completed" and the
\* "pipeline failed" event equals the number of tasks that are done when
\* the event is emitted, which is when Run returns.
C19_CompletedCountExact ==
    (pc = "returned" /\ runEvents # <<>>
        /\ runEvents[Len(runEvents)].event
              \in {"pipeline completed", "pipeline failed"}) =>
        runEvents[Len(runEvents)].tasks_completed
            = Cardinality({t \in Registered : tasks[t].done})

\* no goroutine of a wave is alive
NoGoroutine == wg = 0 /\ \A n \in DOMAIN gpc : gpc[n] = "idle"

\* C20: within a Run, a step that writes a task record is either a step of
\* the executor made while no goroutine is alive, or a step of that task's
\* own goroutine, which writes no other record; findReadyTasks and allDone
\* read the records only while no goroutine is alive; and a goroutine is
\* alive only while the executor waits.
C20_OneWriterNoConcurrentRead ==
    [][ /\ pc # "build" =>
              \A u \in Registered :
                  tasks'[u] # tasks[u] =>
                      IF pc = "find"
                      THEN NoGoroutine
                      ELSE /\ pc = "wait"
                           /\ gpc[u] # "idle"
                           /\ \A v \in Registered \ {u} : tasks'[v] = tasks[v]
        /\ pc = "find" => NoGoroutine
        /\ ~NoGoroutine' => pc' = "wait"
      ]_vars

\* two goroutines of one wave at work, one after its write of done, the
\* other before its call
C20_Witness ==
    /\ pc = "wait"
    /\ \E t, u \in Registered :
          /\ t # u
          /\ gpc[t] = "inc" /\ tasks[t].done
          /\ gpc[u] = "call" /\ tasks[u].running

\* the state of a task record
TaskState(r) ==
    IF r.done THEN "done"
    ELSE IF r.err # NoErr THEN "failed"
    ELSE IF r.running THEN "running"
    ELSE "pending"

\* C21: every step leaves a task in its state or moves it pending ->
\* running, running -> done or running -> failed; done and failed are never
\* left, and no task is both done and failed.
C21_MonotonicStates ==
    [][ \A t \in Registered :
           LET a == TaskState(tasks[t])
               b == TaskState(tasks'[t])
           IN  /\ \/ a = b
                  \/ <<a, b>> \in {<<"pending", "running">>,
                                   <<"running", "done">>,
                                   <<"running", "failed">>}
               /\ ~(tasks'[t].done /\ tasks'[t].err # NoErr)
               /\ tasks[t].done => tasks'[t].done
               /\ tasks[t].err # NoErr => tasks'[t].err = tasks[t].err
      ]_vars

\* Run has returned with one task done, one failed and one still pending
C21_Witness ==
    /\ pc = "returned"
    /\ \E t, u, v \in Registered :
          /\ TaskState(tasks[t]) = "done"
          /\ TaskState(tasks[u]) = "failed"
          /\ TaskState(tasks[v]) = "pending"
          /\ launches[t] = 1 /\ launches[u] = 1 /\ launches[v] = 0

\* C22: in every state of the flow, findReadyTasks is exactly the set of
\* pending tasks (not done, not running, no error) whose every dependency
\* name is a registered task in state done; a task with an unregistered
\* dependency name, or with a dependency that is failed, pending or still
\* running, is not in it.
C22_ReadySetExact ==
    /\ findReadyTasks =
          {t \in Registered :
              /\ TaskState(tasks[t]) = "pending"
              /\ \A d \in tasks[t].deps :
                    d \in Registered /\ TaskState(tasks[d]) = "done"}
    /\ \A t \in Registered :
          (\E d \in tasks[t].deps :
              \/ d \notin Registered
              \/ TaskState(tasks[d]) \in {"pending", "running", "failed"})
              => t \notin findReadyTasks

\* a task that depends on a done task and on a failed one is left out, and
\* so is the failed task, while the ready set is empty
C22_Witness ==
    \E u \in Registered :
        /\ findReadyTasks = {}
        /\ TaskState(tasks[u]) = "pending"
        /\ \E d, e \in tasks[u].deps :
              /\ d \in Registered /\ TaskState(tasks[d]) = "failed"
              /\ e \in Registered /\ TaskState(tasks[e]) = "done"

\* C23: the events of a task are "step started" followed by at most one of
\* "step completed" and "step failed", so a task has at most one started
\* event; a task never launched has none; and once the run-level terminal
\* event is out or Run has returned, every launched task has its started
\* event and exactly one closing event, completed for a done task and failed
\* for a failed one.
C23_TaskEventOrder ==
    \A t \in Registered :
        /\ taskEvents[t] \in {<<>>, <<"step started">>,
                              <<"step started", "step completed">>,
                              <<"step started", "step failed">>}
        /\ launches[t] = 0 => taskEvents[t] = <<>>
        /\ (pc = "returned" \/ TerminalEvents # {}) =>
              (launches[t] > 0 =>
                  /\ Len(taskEvents[t]) = 2
                  /\ tasks[t].done =>
                        taskEvents[t][2] = "step completed"
                  /\ tasks[t].err # NoErr =>
                        taskEvents[t][2] = "step failed")

\* Run has logged "pipeline failed" after a wave in which one task
\* completed and another failed
C23_Witness ==
    /\ pc = "returned"
    /\ TerminalEvents # {}
    /\ \E t, u \in Registered :
          /\ startedIn[t] = startedIn[u]
          /\ taskEvents[t] = <<"step started", "step completed">>
          /\ taskEvents[u] = <<"step started", "step failed">>

\* C24: every AddTask call, a call for an already registered name included,
\* leaves exactly one record under its name, pending, with the function and
\* the dependencies of that call, touches no other record and reports no
\* error; Run then invokes the function of the record at most once, under
\* the record's dependencies, and changes neither.
C24_ReRegistrationOverwrites ==
    [][ /\ order' # order =>
              LET n == lastCall'.name IN
              /\ order' = Append(order, n)
              /\ DOMAIN tasks' = Registered \cup {n}
              /\ tasks'[n] = [name |-> n, fn |-> lastCall'.fn,
                              deps |-> lastCall'.deps, done |-> FALSE,
                              running |-> FALSE, err |-> NoErr]
              /\ lastCall'.fn = Len(order')
              /\ \A m \in Registered \ {n} : tasks'[m] = tasks[m]
              /\ pc' = "build" /\ result' = NotReturned
        /\ \A t \in Registered :
              /\ calls'[t] <= 1
              /\ pc # "build" =>
                    /\ tasks'[t].fn = tasks[t].fn
                    /\ tasks'[t].deps = tasks[t].deps
              /\ calls'[t] > calls[t] =>
                    /\ \A d \in tasks[t].deps :
                          d \in Registered /\ tasks[d].done
                    /\ tasks'[t].err # NoErr =>
                          tasks'[t].err.cause = tasks[t].fn
      ]_vars

\* a name registered first without dependencies and again, third of three
\* calls, with a dependency on the other task: Run has executed the third
\* function once, after the other task
C24_Witness ==
    /\ pc = "returned"
    /\ result = Success
    /\ Len(order) = 3
    /\ order[1] = order[3]
    /\ order[2] # order[1]
    /\ tasks[order[1]].fn = 3
    /\ tasks[order[1]].deps = {order[2]}
    /\ calls[order[1]] = 1
    /\ startedIn[order[1]] = 2
    /\ Cardinality(Registered) = 2

\* the orderings C25 names: <<d, t>> for "t only after d is done"
CocEdges ==
    {<<"fetch_coc_data", "prepare_record">>,
     <<"prepare_record", "create_certification">>,
     <<"create_certification", "upload_pdf">>,
     <<"generate_pdf", "upload_pdf">>,
     <<"upload_pdf", "send_email">>}

\* S and the tasks one edge behind a member of S
CocStep(S) == S \cup {p[2] : p \in {q \in CocEdges : q[1] \in S}}

\* the tasks behind t, t excluded
CocBehind(t) == CocStep(CocStep(CocStep(CocStep({t})))) \ {t}

\* C25: in the COC flow generate_pdf and fetch_coc_data are launched
\* together in the first wave; prepare_record, create_certification,
\* upload_pdf and send_email are each launched and invoked only after the
\* tasks they are named after are done, in an earlier wave; and no task
\* behind a failed task is ever launched or invoked.
C25_CocOrdering ==
    /\ wave >= 1 =>
          startedIn["generate_pdf"] = 1 /\ startedIn["fetch_coc_data"] = 1
    /\ \A p \in CocEdges :
          (startedIn[p[2]] > 0 \/ calls[p[2]] > 0) =>
              /\ tasks[p[1]].done
              /\ finishedIn[p[1]] > 0
              /\ finishedIn[p[1]] < startedIn[p[2]]
    /\ \A t \in Registered :
          tasks[t].err # NoErr =>
              \A u \in CocBehind(t) : launches[u] = 0 /\ calls[u] = 0

\* create_certification failed in the third wave, after generate_pdf,
\* fetch_coc_data and prepare_record were done
C25_Witness ==
    /\ pc = "returned"
    /\ order = CocOrder
    /\ tasks["create_certification"].err # NoErr
    /\ startedIn["create_certification"] = 3
    /\ tasks["generate_pdf"].done
    /\ tasks["prepare_record"].done
    /\ calls["upload_pdf"] = 0
    /\ calls["send_email"] = 0

\* what C26 says of skipped steps: once the linear Run is under way, a step
\* whose name is in the skip set has had neither its work invoked nor a
\* started or retry event; and when Run returns success every other step,
\* whatever dependencies it declared, is done.
SkippedNeverRun ==
    /\ lpc # "build" =>
          \A i \in 1..Len(taskOrder) :
              taskOrder[i] \in skipSteps =>
                  /\ outcomes[i] = <<>>
                  /\ warns[i] = 0
                  /\ \A k \in 1..Len(stepEvents[i]) :
                        stepEvents[i][k] = "step skipped"
    /\ (lpc = "returned" /\ linResult = LinSuccess) =>
          \A i \in 1..Len(taskOrder) :
              IF taskOrder[i] \in skipSteps
              THEN stepEvents[i] = <<"step skipped">>
              ELSE LinDone(i)

\* C26 as stated: skipped steps are never executed and Run goes on past
\* them; when Run returns success the completed count plus the skipped
\* count is the number of registered task names.
C26_SkipCountsNames ==
    /\ SkippedNeverRun
    /\ (lpc = "returned" /\ linResult = LinSuccess) =>
          linCompleted + skippedCount = Cardinality(DOMAIN linTasks)

\* C27: when a wave ends without a task error, with the context cancelled
\* and every registered task done, Run's next step returns the cancellation
\* error, not success, and every task is still done.
C27_CancelBeatsSuccess ==
    [][ (/\ pc = "wait"
         /\ pc' # "wait"
         /\ cancelled
         /\ errChan = <<>>
         /\ \A t \in Registered : tasks[t].done) =>
            /\ pc' = "returned"
            /\ result' = Cancelled
            /\ result' # Success
            /\ \A t \in Registered : tasks'[t].done
      ]_vars

\* the context was cancelled after Run was called; Run returned the
\* cancellation error after its second wave with both tasks done
C27_Witness ==
    /\ pc = "returned"
    /\ result = Cancelled
    /\ ~startCancelled
    /\ wave = 2
    /\ Cardinality(Registered) = 2
    /\ \A t \in Registered : tasks[t].done

\* C28: a wave is started only by launching at least one pending task, so
\* there are never more waves than registered tasks; while a goroutine has
\* yet to report, errChan has room for its error; and once Run is called,
\* with every invocation returning, Run returns success, a task error, the
\* deadlock error or the cancellation error.
C28_RunTerminates ==
    /\ [](wave <= Cardinality(Registered))
    /\ [](\A t \in Registered : gpc[t] = "call" => canSend)
    /\ [][wave' # wave =>
             /\ wave' = wave + 1
             /\ \E t \in Registered : Pending(t) /\ tasks'[t].running]_vars
    /\ RunCalled ~>
          (pc = "returned"
              /\ result.kind \in {"success", "task", "deadlock", "cancelled"})

\* all three tasks of one wave failed: errChan is as full as it can get
C28_Witness ==
    /\ pc = "returned"
    /\ wave = 1
    /\ Len(errChan) = 3
    /\ waveSize = 3
    /\ result.kind = "task"

\* every task t depends on, directly or not, is registered, and neither t
\* nor any of them is on a dependency cycle
Runnable(t) ==
    /\ TransDeps(t) \subseteq Registered
    /\ \A u \in TransDeps(t) \cup {t} : u \notin TransDeps(u)

\* C29: when Run has returned the deadlock error, every registered task
\* whose transitive dependencies are all registered and free of cycles is
\* done, its work invoked once, and every other task, on or behind a cycle
\* or an unregistered name, is pending and was never launched; there is at
\* least one such task.
C29_DeadlockLeavesOnlyStarved ==
    result = Deadlock =>
        /\ \A t \in Registered :
              IF Runnable(t)
              THEN tasks[t].done /\ calls[t] = 1
              ELSE Pending(t) /\ launches[t] = 0 /\ calls[t] = 0
        /\ \E t \in Registered : ~Runnable(t)

\* deadlock returned after two waves: a chain of two done tasks beside a
\* task that depends on itself
C29_Witness ==
    /\ pc = "returned"
    /\ result = Deadlock
    /\ wave = 2
    /\ \E t, u, v \in Registered :
          /\ tasks[t].deps = {}
          /\ tasks[u].deps = {t}
          /\ tasks[t].done /\ tasks[u].done
          /\ v \in tasks[v].deps
          /\ Pending(v)

\* C30: the order list holds every registered name exactly once and nothing
\* else, and every "pipeline started" event carries a task count equal to
\* the length of its list of task names.
C30_OrderListsEachNameOnce ==
    /\ \A n \in Registered :
          Cardinality({i \in 1..Len(order) : order[i] = n}) = 1
    /\ {order[i] : i \in 1..Len(order)} = Registered
    /\ \A k \in 1..Len(runEvents) :
          runEvents[k].event = "pipeline started" =>
              runEvents[k].task_count = Len(runEvents[k].tasks)

====
